---- MODULE Spec2Model ----
(***************************************************************************)
(* germanminerjs: the GMClient quota cache (client.ts), the BankAccount /  *)
(* BankService loading protocol (common/schemas/bank.ts, both variants of  *)
(* the file) and the Player / PlayerService lookups.                       *)
(*                                                                         *)
(* Every asynchronous operation is a flow.  A flow runs without            *)
(* interruption from one await to the next (JavaScript is single           *)
(* threaded); flows interleave at their pending fetches, at the await of   *)
(* refreshCache() in handleOperation, which resumes some turns after the   *)
(* refresh has stored its answer, and at the await between the accountType *)
(* and the bearer assignment of BankAccount._load.  A promise that is      *)
(* created but never awaited runs as a detached flow whose rejection       *)
(* nobody observes.                                                        *)
(***************************************************************************)
EXTENDS Integers, Sequences, FiniteSets, TLC

\* ---------------------------------------------------------------- bounds
MaxOps == 3          \* operations after create that count a request
MaxTicks == 1        \* clock advances
MaxFg == 2           \* operations the caller keeps in flight at once
MaxBg == 1           \* detached (never awaited) promises in flight at once
MaxLimit == 3        \* largest limit the server reports
MaxRequests == 2     \* largest requests value the server reports
MaxItems == 2        \* entries of a bank/list response

\* ------------------------------------------------------ program constants
MAX_CACHE_LIFETIME == 600000

Privatkonto == "Privatkonto"
Firma == "Firma"
accountTypes == {Privatkonto, Firma}

\* JavaScript's undefined, for string-valued fields
Undefined == "<undefined>"
\* a value is falsy in `if (x)` / `!x`
Falsy(s) == s \in {Undefined, ""}
\* String(x)
StringOf(x) == IF x = Undefined THEN "undefined" ELSE x

\* ------------------------------------------------------------ the server
Fg == 1..MaxFg
Bg == (MaxFg + 1)..(MaxFg + MaxBg)
Slots == Fg \cup Bg

AccountNumbers == {"ACC1", "ACC2"}
PlayerNames == {"Steve", ""}
Uuids == {"u-1", ""}
Balances == {5}

\* fetchData either throws ApiError or returns responseJson.data
ApiInfoPayloads ==
  [limit : (MaxLimit - 1)..MaxLimit, requests : 0..MaxRequests,
   outstandingCosts : {0}]
\* the account payloads of bank/info and bank/list; "Firmenkonto" is not in
\* the enum of BankAccountSchema
AccountPayloads ==
  [accountNumber : {"ACC1"}, balance : Balances,
   accountType : accountTypes \cup {"Firmenkonto"}, bearer : PlayerNames]
UuidPayloads == [uuid : {"u-1", "", Undefined}]
PlayernamePayloads == [playername : {"Steve", "", Undefined}]

RECURSIVE SeqsUpTo(_, _)
SeqsUpTo(S, n) ==
  IF n = 0 THEN {<<>>}
  ELSE LET shorter == SeqsUpTo(S, n - 1)
       IN shorter \cup {Append(s, x) : s \in shorter, x \in S}

\* the accounts of a bank/list answer: a company account without money, a
\* private account, and an account of a type the schema does not list
ListAccounts ==
  {[accountNumber |-> "ACC1", balance |-> 0, accountType |-> Firma,
    bearer |-> "Steve"],
   [accountNumber |-> "ACC2", balance |-> 5, accountType |-> Privatkonto,
    bearer |-> "Steve"],
   [accountNumber |-> "ACC3", balance |-> 5, accountType |-> "Firmenkonto",
    bearer |-> "Steve"]}
NoFields ==
  [accountNumber |-> Undefined, balance |-> 0, accountType |-> Undefined,
   bearer |-> Undefined]
\* an entry is an object or a string; an item of the loop can also be an array
ListEntries ==
  {[kind |-> "object", account |-> a] : a \in ListAccounts}
    \cup {[kind |-> "string", account |-> NoFields]}
ArrayItem == [kind |-> "array", account |-> NoFields]
\* an answer without data (undefined or null)
NoData == [shape |-> "none", key |-> "", entries |-> <<>>]
\* the data of a bank/list answer: none, the entries as an array, as an
\* object keyed by account number, or as an array under a key of an object
ListPayloads ==
  {NoData} \cup
  {[shape |-> sh, key |-> "", entries |-> e] :
     sh \in {"array", "map"}, e \in SeqsUpTo(ListEntries, MaxItems)}
  \cup {[shape |-> "keyed", key |-> k, entries |-> e] :
     k \in {"accounts", "items"}, e \in SeqsUpTo(ListEntries, MaxItems)}

\* ------------------------------------------------------------ validation
\* ApiInfo (common/schemas/api-info.ts)
ApiInfoValid(d) ==
  /\ d.limit >= 0
  /\ d.requests > 0
  /\ d.outstandingCosts >= 0

\* variant: the enum also lists the account type of the older schema
BankAccountSchemaLoose(d) == d.accountType \in accountTypes \cup {"Firmenkonto"}

\* BankAccountSchema
BankAccountSchemaValid(d) == d.accountType \in accountTypes

\* ----------------------------------------------------------------- state
VARIABLES
  client,      \* GMClient: LAZY, #REQ_LIMIT, #requestCount, #lastUpdated
  ready,       \* GMClient.create has returned the client
  now,         \* Date.now()
  ticks,       \* clock advances so far
  flows,       \* the asynchronous operations in flight
  last,        \* the operation that finished last, as its caller sees it
  acct,        \* the BankAccount instance of the caller
  plr,         \* the Player instance of the caller
  snap,        \* history: the last quota-info response written to the cache
  unhandled,   \* history: the last rejection of a promise nobody awaited
  ops          \* operations started so far that counted a request

vars ==
  <<client, ready, now, ticks, flows, last, acct, plr, snap, unhandled, ops>>

NoPlayer == [playerName |-> Undefined, uuid |-> Undefined]
NoBearer == [kind |-> "undefined", playerName |-> Undefined, uuid |-> Undefined]
StringBearer(s) == [kind |-> "string", playerName |-> s, uuid |-> Undefined]
PlayerBearer(p) == [kind |-> "player", playerName |-> p.playerName, uuid |-> p.uuid]

\* variant: the constructor defaults the balance to 0
NewBankAccountZeroed(accountNumber) ==
  [exists |-> TRUE, held |-> FALSE, variant |-> 1,
   accountNumber |-> accountNumber, balance |-> <<0>>, accountType |-> Undefined, bearer |-> NoBearer]

\* new BankAccount(accountNumber, ctx): bank.ts constructor; variant tells
\* which of the two variants of bank.ts the account is an instance of
NewBankAccount(accountNumber) ==
  [exists |-> TRUE, held |-> FALSE, variant |-> 1,
   accountNumber |-> accountNumber,
   balance |-> <<>>, accountType |-> Undefined, bearer |-> NoBearer]
\* new BankAccount(accountNumber, ctx) of the second variant: no optional
\* argument is truthy, no field is assigned
NewBankAccount2(accountNumber) ==
  [exists |-> TRUE, held |-> FALSE, variant |-> 2,
   accountNumber |-> accountNumber,
   balance |-> <<>>, accountType |-> Undefined, bearer |-> NoBearer]
NoAccount ==
  [exists |-> FALSE, held |-> FALSE, variant |-> 0,
   accountNumber |-> Undefined,
   balance |-> <<>>, accountType |-> Undefined, bearer |-> NoBearer]

IdleFlow ==
  [op |-> "none", pc |-> "idle", calls |-> 0, result |-> "none",
   ret |-> 0, flag |-> FALSE, ignoreCache |-> FALSE,
   stale |-> FALSE, locked |-> FALSE, private |-> FALSE, arg |-> Undefined,
   target |-> "none", want |-> "none",
   player |-> NoPlayer,
   data |-> NoData, items |-> <<>>, list |-> <<>>, info |-> <<>>]

\* ------------------------------------------------------------ GMClient
\* variant: the limit counts as reached only once it is exceeded
isLimitReachedStrict(c) == c.requestCount > c.REQ_LIMIT

\* GMClient.isLimitReached
isLimitReached(c) == c.requestCount >= c.REQ_LIMIT

\* GMClient.isCacheOutdated
isCacheOutdated(c, t) == t - c.lastUpdated > MAX_CACHE_LIFETIME

\* variant: an answer that arrives while the cache is fresh is dropped
StoreApiInfoIfOutdated(c, apiInfo, t) ==
  IF t - c.lastUpdated > MAX_CACHE_LIFETIME
    THEN [c EXCEPT !.REQ_LIMIT = apiInfo.limit,
                   !.requestCount = apiInfo.requests,
                   !.lastUpdated = t]
    ELSE c

\* variant: the fetched requests are added to the counter
StoreApiInfoAdding(c, apiInfo, t) ==
  [c EXCEPT !.REQ_LIMIT = apiInfo.limit,
            !.requestCount = @ + apiInfo.requests,
            !.lastUpdated = t]

\* the assignments of GMClient.create / GMClient.refreshCache
StoreApiInfo(c, apiInfo, t) ==
  [c EXCEPT !.REQ_LIMIT = apiInfo.limit,
            !.requestCount = apiInfo.requests,
            !.lastUpdated = t]

\* variant: ignoreCache is not honoured
handleOperationAlwaysChecks(c, t, ignoreCache) ==
  LET c1 == [c EXCEPT !.requestCount = @ + 1]
  IN IF isCacheOutdated(c1, t)
       THEN [client |-> [c1 EXCEPT !.requestCount = @ + 1],
             out |-> "refresh", bumps |-> 2]
     ELSE IF isLimitReached(c1)
       THEN [client |-> c1, out |-> "limit", bumps |-> 1]
     ELSE [client |-> c1, out |-> "pass", bumps |-> 1]

\* GMClient.handleOperation up to its first suspension.  out is
\*   "pass"    the promise resolves,
\*   "limit"   it rejects with LimitReachedError,
\*   "refresh" it is suspended in refreshCache: getApiInfo(true) has run its
\*             own handleOperation(true) and the api/info fetch is pending.
handleOperation(c, t, ignoreCache) ==
  LET c1 == [c EXCEPT !.requestCount = @ + 1]
  IN IF ignoreCache THEN [client |-> c1, out |-> "pass", bumps |-> 1]
     ELSE IF isCacheOutdated(c1, t)
       THEN [client |-> [c1 EXCEPT !.requestCount = @ + 1],
             out |-> "refresh", bumps |-> 2]
     ELSE IF isLimitReached(c1)
       THEN [client |-> c1, out |-> "limit", bumps |-> 1]
     ELSE [client |-> c1, out |-> "pass", bumps |-> 1]

\* variant: the operation's own increment survives the refresh
AfterRefreshCounted(c) ==
  IF c.requestCount + 1 >= c.REQ_LIMIT THEN "limit" ELSE "pass"

\* the limit check of handleOperation after its refreshCache has returned
\* (client.ts 101-103), on the client as it is when handleOperation resumes
AfterRefresh(c) == IF isLimitReached(c) THEN "limit" ELSE "pass"

Init ==
  /\ client \in [LAZY : BOOLEAN, REQ_LIMIT : {0}, requestCount : {0},
                 lastUpdated : {0}]
  /\ ready = FALSE
  /\ now = MAX_CACHE_LIFETIME + 1
  /\ ticks = 0
  /\ flows = [s \in Slots |-> IdleFlow]
  /\ last = IdleFlow
  /\ acct = NoAccount
  /\ plr = NoPlayer
  /\ snap = [limit |-> 0, requests |-> 0, since |-> 0]
  /\ unhandled = "none"
  /\ ops = 0

Free(f) == flows[f].pc = "idle"
\* the slot a promise nobody awaits runs in
FreeBg == {b \in Bg : flows[b].pc = "idle"}
PickBg == CHOOSE b \in FreeBg : \A o \in FreeBg : b <= o
\* a finished flow keeps what the caller sees of it: the result, and the
\* list only if the operation has returned it
Done(fl, res) ==
  [fl EXCEPT !.pc = "done", !.result = res, !.want = "none",
             !.data = NoData, !.items = <<>>, !.player = NoPlayer,
             !.list = IF res = "ok" THEN @ ELSE <<>>]
\* the flows after a step: a finished flow leaves its slot and is the last
\* finished operation
Settle(fs) ==
  LET fin == {s \in Slots : fs[s].pc = "done"}
  IN /\ flows' = [s \in Slots |-> IF s \in fin THEN IdleFlow ELSE fs[s]]
     /\ last' = IF fin = {} THEN last ELSE fs[CHOOSE s \in fin : TRUE]

\* Date.now() advances
Tick(d) ==
  /\ ready
  /\ ticks < MaxTicks
  /\ now' = now + d
  /\ ticks' = ticks + 1
  /\ UNCHANGED <<client, ready, flows, last, acct, plr, snap, unhandled, ops>>

\* Date.now() advances while the api/info fetch of a refresh is pending
Latency(d) ==
  /\ \E f \in Fg : flows[f].pc = "refreshWait"
  /\ ticks < MaxTicks + 1
  /\ now' = now + d
  /\ ticks' = ticks + 1
  /\ UNCHANGED <<client, ready, flows, last, acct, plr, snap, unhandled, ops>>

\* GMClient.create: new GMClient(options), then getApiInfo(true) up to its
\* api/info fetch
CreateStart(f) ==
  /\ ~ready /\ last.op = "none"
  /\ \A s \in Slots : flows[s].pc = "idle"
  /\ LET h == handleOperation(client, now, TRUE)
     IN /\ client' = h.client
        /\ snap' = [snap EXCEPT !.since = @ + h.bumps]
        /\ Settle([flows EXCEPT ![f] =
             [IdleFlow EXCEPT !.op = "create", !.pc = "fetchWait",
                              !.ignoreCache = TRUE, !.calls = 1]])
  /\ UNCHANGED <<ready, now, ticks, acct, plr, unhandled, ops>>

\* GMClient.create after the fetch: ApiInfo.parseAsync, then the assignments;
\* info is the data the api/info fetch has returned
CreateResponse(f, okResp, data) ==
  /\ flows[f].op = "create" /\ flows[f].pc = "fetchWait"
  /\ IF ~okResp THEN
       /\ Settle([flows EXCEPT ![f] = Done(@, "ApiError")])
       /\ UNCHANGED <<client, ready, snap>>
     ELSE IF ~ApiInfoValid(data) THEN
       /\ Settle([flows EXCEPT ![f] =
            Done([@ EXCEPT !.info = <<data>>], "ZodError")])
       /\ UNCHANGED <<client, ready, snap>>
     ELSE
       /\ client' = StoreApiInfo(client, data, now)
       /\ snap' = [limit |-> data.limit, requests |-> data.requests, since |-> 0]
       /\ ready' = TRUE
       /\ Settle([flows EXCEPT ![f] =
            Done([@ EXCEPT !.info = <<data>>], "ok")])
  /\ UNCHANGED <<now, ticks, acct, plr, unhandled, ops>>

\* the caller starts an operation in slot f
CanStart(f) ==
  /\ ready /\ Free(f)
  /\ \A g \in Fg : g < f => ~Free(g)
\* ... and the operation calls handleOperation
CountedIf(counts) ==
  IF counts THEN ops < MaxOps /\ ops' = ops + 1 ELSE UNCHANGED ops

\* GMClient.isLimitReached, called by the user
IsLimitReached(f) ==
  /\ CanStart(f)
  /\ Settle([flows EXCEPT ![f] =
       [IdleFlow EXCEPT !.op = "isLimitReached", !.pc = "done",
                        !.result = "ok", !.flag = isLimitReached(client)]])
  /\ UNCHANGED <<client, ready, now, ticks, acct, plr, snap, unhandled, ops>>

\* GMClient.getRemainingRequests: refreshCache() is called and not awaited;
\* it runs up to the api/info fetch of getApiInfo(true) and goes on as the
\* detached flow b, while the caller gets #REQ_LIMIT - #requestCount
GetRemainingRequests(f) ==
  /\ CanStart(f)
  /\ FreeBg # {}
  /\ LET h == handleOperation(client, now, TRUE)
     IN /\ client' = h.client
        /\ snap' = [snap EXCEPT !.since = @ + h.bumps]
        /\ Settle([flows EXCEPT
             ![f] = [IdleFlow EXCEPT !.op = "getRemainingRequests",
                       !.pc = "done", !.result = "ok",
                       !.ret = h.client.REQ_LIMIT - h.client.requestCount,
                       !.stale = isCacheOutdated(client, now)],
             ![PickBg] = [IdleFlow EXCEPT !.op = "refreshCache",
                       !.pc = "fetchWait", !.calls = 1]])
  /\ CountedIf(TRUE)
  /\ UNCHANGED <<ready, now, ticks, acct, plr, unhandled>>

\* the detached refreshCache of getRemainingRequests after its fetch
DetachedRefreshResponse(b, okResp, data) ==
  /\ flows[b].op = "refreshCache" /\ flows[b].pc = "fetchWait"
  /\ Settle([flows EXCEPT ![b] = IdleFlow])
  /\ IF ~okResp THEN
       /\ unhandled' = "ApiError"
       /\ UNCHANGED <<client, snap>>
     ELSE IF ~ApiInfoValid(data) THEN
       /\ unhandled' = "ZodError"
       /\ UNCHANGED <<client, snap>>
     ELSE
       /\ client' = StoreApiInfo(client, data, now)
       /\ snap' = [limit |-> data.limit, requests |-> data.requests, since |-> 0]
       /\ UNCHANGED unhandled
  /\ UNCHANGED <<ready, now, ticks, acct, plr, ops>>

\* an awaited `await ctx.handleOperation(ignoreCache)` at the head of
\* operation op, followed by the start of the operation's own fetch
Precheck(fl, h) ==
  IF h.out = "limit" THEN Done(fl, "LimitReachedError")
  ELSE IF h.out = "refresh"
    THEN [fl EXCEPT !.pc = "refreshWait", !.stale = TRUE, !.calls = @ + 1,
                    !.locked = h.client.requestCount - h.bumps
                                 >= h.client.REQ_LIMIT]
  ELSE [fl EXCEPT !.pc = "fetchWait", !.calls = @ + 1]

\* GMClient.getApiInfo(ignoreCache), called by the user
GetApiInfo(f, ignoreCache) ==
  /\ CanStart(f)
  /\ LET h == handleOperation(client, now, ignoreCache)
     IN /\ client' = h.client
        /\ snap' = [snap EXCEPT !.since = @ + h.bumps]
        /\ Settle([flows EXCEPT ![f] =
             Precheck([IdleFlow EXCEPT !.op = "getApiInfo",
                                       !.ignoreCache = ignoreCache], h)])
  /\ CountedIf(TRUE)
  /\ UNCHANGED <<ready, now, ticks, acct, plr, unhandled>>

\* refreshCache inside an awaited handleOperation: the api/info fetch
\* returns and refreshCache writes the cache; the handleOperation that awaits
\* it resumes in a later turn.  info is the answer of the flow's own refresh
\* until then
RefreshResponse(f, okResp, data) ==
  /\ flows[f].pc = "refreshWait"
  /\ IF ~okResp THEN
       /\ Settle([flows EXCEPT ![f] = Done(@, "ApiError")])
       /\ UNCHANGED <<client, snap>>
     ELSE IF ~ApiInfoValid(data) THEN
       /\ Settle([flows EXCEPT ![f] = Done(@, "ZodError")])
       /\ UNCHANGED <<client, snap>>
     ELSE
       /\ client' = StoreApiInfo(client, data, now)
       /\ snap' = [limit |-> data.limit, requests |-> data.requests,
                   since |-> 0]
       /\ Settle([flows EXCEPT ![f] =
            [@ EXCEPT !.pc = "refreshed", !.info = <<data>>]])
  /\ UNCHANGED <<ready, now, ticks, acct, plr, unhandled, ops>>

\* handleOperation resumes from `await this.refreshCache()`: the limit is
\* tested on the cache as it is now, and the operation goes on to its own
\* fetch
PrecheckResume(f) ==
  /\ flows[f].pc = "refreshed"
  /\ Settle([flows EXCEPT ![f] =
       IF AfterRefresh(client) = "limit"
         THEN Done([@ EXCEPT !.info = <<>>], "LimitReachedError")
         ELSE [@ EXCEPT !.pc = "fetchWait", !.calls = @ + 1,
                        !.info = <<>>]])
  /\ UNCHANGED <<client, ready, now, ticks, acct, plr, snap, unhandled, ops>>

\* GMClient.getApiInfo after its api/info fetch
GetApiInfoResponse(f, okResp, data) ==
  /\ flows[f].op = "getApiInfo" /\ flows[f].pc = "fetchWait"
  /\ Settle([flows EXCEPT ![f] =
       IF ~okResp THEN Done(@, "ApiError")
       ELSE IF ~ApiInfoValid(data) THEN Done(@, "ZodError")
       ELSE Done(@, "ok")])
  /\ UNCHANGED <<client, ready, now, ticks, acct, plr, snap, unhandled, ops>>

\* variant: the test of the lazy flag is inverted
CreateLoadsWhenLazy(lazy) == lazy = TRUE

\* BankAccount._create / Player._create: `ctx.lazy == false` decides whether
\* the new object is loaded before it is returned
CreateLoads(lazy) == lazy = FALSE

\* ------------------------------------------------------------- Player
\* the branch Player._load takes
PlayerLoadBranch(p) ==
  IF ~Falsy(p.playerName) /\ Falsy(p.uuid) THEN "uuid"
  ELSE IF Falsy(p.playerName) /\ ~Falsy(p.uuid) THEN "playername"
  ELSE "GmClientError"

\* `this.#ctx.handleOperation()` of Player._getUuidFromPlayername and
\* Player._getPlayernameFromUuid: the promise is not awaited.  A rejection
\* is unobserved and a refresh goes on as a detached flow.
DetachedAllowed(h) == h.out = "refresh" => FreeBg # {}
DetachedFlows(fs, h) ==
  IF h.out = "refresh"
    THEN [fs EXCEPT ![PickBg] =
           [IdleFlow EXCEPT !.op = "handleOperation", !.pc = "refreshWait",
                            !.calls = 1]]
    ELSE fs
DetachedRejections(h) ==
  IF h.out = "limit" THEN "LimitReachedError" ELSE unhandled

\* Player._load of player p inside flow fl, up to the lookup fetch
PlayerLoadStart(fl, p, h) ==
  IF PlayerLoadBranch(p) = "GmClientError"
    THEN Done(fl, "GmClientError")
    ELSE [fl EXCEPT !.pc = "lookupWait", !.want = PlayerLoadBranch(p),
                    !.player = p, !.calls = @ + 1,
                    !.stale = @ \/ h.out = "refresh"]

\* the state left by a Player._load started now on p; nothing but the flow
\* changes when _load throws before its lookup
PlayerLoadEffects(f, fl, p) ==
  LET h == handleOperation(client, now, FALSE)
  IN IF PlayerLoadBranch(p) = "GmClientError"
       THEN /\ Settle([flows EXCEPT ![f] = PlayerLoadStart(fl, p, h)])
            /\ UNCHANGED <<client, snap, unhandled>>
       ELSE /\ DetachedAllowed(h)
            /\ client' = h.client
            /\ snap' = [snap EXCEPT !.since = @ + h.bumps]
            /\ unhandled' = DetachedRejections(h)
            /\ Settle([DetachedFlows(flows, h) EXCEPT
                           ![f] = PlayerLoadStart(fl, p, h)])

\* the refreshCache of a detached handleOperation after its api/info fetch
DetachedPrecheckResponse(b, okResp, data) ==
  /\ flows[b].op = "handleOperation" /\ flows[b].pc = "refreshWait"
  /\ IF ~okResp THEN
       /\ Settle([flows EXCEPT ![b] = IdleFlow])
       /\ unhandled' = "ApiError"
       /\ UNCHANGED <<client, snap>>
     ELSE IF ~ApiInfoValid(data) THEN
       /\ Settle([flows EXCEPT ![b] = IdleFlow])
       /\ unhandled' = "ZodError"
       /\ UNCHANGED <<client, snap>>
     ELSE
       /\ Settle([flows EXCEPT ![b] = [@ EXCEPT !.pc = "refreshed"]])
       /\ client' = StoreApiInfo(client, data, now)
       /\ snap' = [limit |-> data.limit, requests |-> data.requests,
                   since |-> 0]
       /\ UNCHANGED unhandled
  /\ UNCHANGED <<ready, now, ticks, acct, plr, ops>>

\* the detached handleOperation resumes from `await this.refreshCache()` and
\* tests the limit on the cache as it is now
DetachedPrecheckResume(b) ==
  /\ flows[b].op = "handleOperation" /\ flows[b].pc = "refreshed"
  /\ Settle([flows EXCEPT ![b] = IdleFlow])
  /\ unhandled' = IF AfterRefresh(client) = "limit"
                    THEN "LimitReachedError"
                    ELSE unhandled
  /\ UNCHANGED <<client, ready, now, ticks, acct, plr, snap, ops>>

\* variant: the services hand the client's lazy flag on
ServiceContextLazyInherited(lazy) == lazy

\* the lazy flag of the context PlayerService.fromPlayername / fromUuid pass
\* to Player._create: Object.assign({}, this.#ctx, { lazy: false })
ServiceContextLazy(lazy) == FALSE

\* Player._create(ctx, playerName, uuid) called by a service for player p
ServiceCreate(f, fl, p) ==
  IF CreateLoads(ServiceContextLazy(client.LAZY)) THEN
    /\ PlayerLoadEffects(f, fl, p)
    /\ UNCHANGED plr
  ELSE
    /\ Settle([flows EXCEPT ![f] = Done(fl, "ok")])
    /\ plr' = p
    /\ UNCHANGED <<client, snap, unhandled>>

\* PlayerService.fromPlayername
FromPlayername(f, playerName) ==
  /\ CanStart(f)
  /\ ServiceCreate(f,
       [IdleFlow EXCEPT !.op = "fromPlayername", !.target = "new",
                        !.arg = playerName],
       [playerName |-> playerName, uuid |-> Undefined])
  /\ CountedIf(flows'[f].pc # "idle")
  /\ UNCHANGED <<ready, now, ticks, acct>>

\* PlayerService.fromUuid
FromUuid(f, uuid) ==
  /\ CanStart(f)
  /\ ServiceCreate(f,
       [IdleFlow EXCEPT !.op = "fromUuid", !.target = "new", !.arg = uuid],
       [playerName |-> Undefined, uuid |-> uuid])
  /\ CountedIf(flows'[f].pc # "idle")
  /\ UNCHANGED <<ready, now, ticks, acct>>

Running(f) == flows[f].pc \notin {"idle", "done"}
Targets(t) == \E g \in Fg : Running(g) /\ flows[g].target = t

\* Player.load() on the caller's Player: the one a service returned ("plr")
\* or the bearer of the caller's BankAccount ("bearer")
PlayerLoad(f, target) ==
  /\ CanStart(f)
  /\ ~Targets("acct") /\ ~Targets(target)
  /\ IF target = "plr" THEN plr # NoPlayer
     ELSE acct.held /\ acct.bearer.kind = "player"
  /\ PlayerLoadEffects(f,
       [IdleFlow EXCEPT !.op = "Player.load", !.target = target],
       IF target = "plr" THEN plr
       ELSE [playerName |-> acct.bearer.playerName, uuid |-> acct.bearer.uuid])
  /\ CountedIf(flows'[f].pc # "idle")
  /\ UNCHANGED <<ready, now, ticks, acct, plr>>

\* a BankAccount as an entry of the list listAll returns
ListEntry(schema, bearer) ==
  [accountNumber |-> schema.accountNumber, balance |-> <<schema.balance>>,
   accountType |-> schema.accountType, bearer |-> bearer]

\* the rest of a flow after the Player._load inside it has failed with err
\* or has returned the loaded player p
LookupDone(f, err, p) ==
  LET fl == flows[f]
      t == fl.target
  IN IF err # "ok" THEN
       /\ Settle([flows EXCEPT ![f] = Done(@, err)])
       /\ acct' = IF fl.op = "bank" THEN NoAccount ELSE acct
       /\ UNCHANGED plr
     ELSE
       /\ Settle([flows EXCEPT ![f] =
            IF t = "list"
              THEN [@ EXCEPT !.pc = "listLoop", !.player = p,
                      !.items = Tail(@),
                      !.list = Append(@, ListEntry(Head(fl.items).account,
                                                   PlayerBearer(p)))]
              ELSE Done(@, "ok")])
       /\ acct' = IF t \in {"acct", "bearer"}
                    THEN [acct EXCEPT !.bearer = PlayerBearer(p),
                                      !.held = @ \/ fl.op = "bank"]
                    ELSE acct
       /\ plr' = IF t \in {"new", "plr"} THEN p ELSE plr

\* Player._getUuidFromPlayername after its util/uuid fetch, and the
\* assignment of Player._load
UuidResponse(f, okResp, data) ==
  /\ flows[f].pc = "lookupWait" /\ flows[f].want = "uuid"
  /\ LET uuid == StringOf(data.uuid)
     IN LookupDone(f,
          IF ~okResp \/ Falsy(uuid) THEN "ApiError" ELSE "ok",
          [flows[f].player EXCEPT !.uuid = uuid])
  /\ UNCHANGED <<client, ready, now, ticks, snap, unhandled, ops>>

\* Player._getPlayernameFromUuid after its util/playername fetch, and the
\* assignment of Player._load
PlayernameResponse(f, okResp, data) ==
  /\ flows[f].pc = "lookupWait" /\ flows[f].want = "playername"
  /\ LET playerName == StringOf(data.playername)
     IN LookupDone(f,
          IF ~okResp \/ Falsy(playerName) THEN "ApiError" ELSE "ok",
          [flows[f].player EXCEPT !.playerName = playerName])
  /\ UNCHANGED <<client, ready, now, ticks, snap, unhandled, ops>>

\* -------------------------------------------------------- BankAccount
\* the head of BankAccount._load / BankService.listAll:
\* `await this.#ctx.handleOperation()` and the start of the fetch
AwaitedPrecheck(f, fl) ==
  LET h == handleOperation(client, now, FALSE)
  IN /\ client' = h.client
     /\ snap' = [snap EXCEPT !.since = @ + h.bumps]
     /\ Settle([flows EXCEPT ![f] = Precheck(fl, h)])

\* variant: the bearer is created under a context that is never lazy
NestedContextLazyForced(lazy) == FALSE

\* the lazy flag of the context BankAccount._load / _fromSchema pass to
\* Player._create for the bearer: the account's own context
NestedContextLazy(lazy) == lazy

\* client.bank(accountNumber) / BankService.get(accountNumber)
Bank(f, accountNumber) ==
  /\ CanStart(f)
  /\ ~Targets("acct") /\ ~Targets("bearer")
  /\ IF CreateLoads(client.LAZY) THEN
       /\ AwaitedPrecheck(f, [IdleFlow EXCEPT !.op = "bank", !.target = "acct",
                                              !.arg = accountNumber])
       /\ acct' = IF flows'[f].pc = "idle" THEN NoAccount
                  ELSE NewBankAccount(accountNumber)
     ELSE
       /\ Settle([flows EXCEPT ![f] =
            Done([IdleFlow EXCEPT !.op = "bank", !.target = "acct",
                                  !.arg = accountNumber], "ok")])
       /\ acct' = [NewBankAccount(accountNumber) EXCEPT !.held = TRUE]
       /\ UNCHANGED <<client, snap>>
  /\ CountedIf(CreateLoads(client.LAZY))
  /\ UNCHANGED <<ready, now, ticks, plr, unhandled>>

\* BankAccount.load() on the caller's account
BankLoad(f) ==
  /\ CanStart(f)
  /\ acct.held /\ acct.variant = 1 /\ ~Targets("bearer")
  /\ AwaitedPrecheck(f, [IdleFlow EXCEPT !.op = "load", !.target = "acct"])
  /\ CountedIf(TRUE)
  /\ UNCHANGED <<ready, now, ticks, acct, plr, unhandled>>

\* BankAccount._load after its bank/info fetch: validation, the assignments
\* of balance and accountType, and the bearer up to the first suspension of
\* Player._create
BankInfoResponse(f, okResp, data) ==
  /\ flows[f].pc = "fetchWait" /\ flows[f].op \in {"bank", "load"}
  /\ LET fl == flows[f]
         err == IF ~okResp THEN "ApiError"
                ELSE IF ~BankAccountSchemaValid(data) THEN "ZodError"
                ELSE "ok"
         loaded == [acct EXCEPT !.balance = <<data.balance>>,
                                !.accountType = data.accountType]
         p == [playerName |-> data.bearer, uuid |-> Undefined]
     IN IF err # "ok" THEN
          /\ Settle([flows EXCEPT ![f] = Done(@, err)])
          /\ acct' = IF fl.op = "bank" THEN NoAccount ELSE acct
          /\ UNCHANGED <<client, snap, unhandled>>
        ELSE IF data.accountType # Privatkonto THEN
          /\ Settle([flows EXCEPT ![f] = Done(@, "ok")])
          /\ acct' = [loaded EXCEPT !.bearer = StringBearer(data.bearer),
                                    !.held = TRUE]
          /\ UNCHANGED <<client, snap, unhandled>>
        ELSE IF CreateLoads(NestedContextLazy(client.LAZY)) THEN
          /\ PlayerLoadEffects(f, [fl EXCEPT !.private = TRUE], p)
          /\ acct' = IF flows'[f].pc = "idle" /\ fl.op = "bank"
                       THEN NoAccount ELSE loaded
        ELSE
          /\ Settle([flows EXCEPT ![f] =
               [@ EXCEPT !.pc = "bearerWait", !.player = p,
                         !.private = TRUE]])
          /\ acct' = loaded
          /\ UNCHANGED <<client, snap, unhandled>>
  /\ UNCHANGED <<ready, now, ticks, plr, ops>>

\* BankAccount._load resumes from `await Player._create(...)` of a lazy
\* context and assigns the bearer
BearerResume(f) ==
  /\ flows[f].pc = "bearerWait"
  /\ Settle([flows EXCEPT ![f] = Done(@, "ok")])
  /\ acct' = [acct EXCEPT !.bearer = PlayerBearer(flows[f].player)]
  /\ UNCHANGED <<client, ready, now, ticks, plr, snap, unhandled, ops>>

\* ------------------------------- BankAccount, second variant of bank.ts
\* BankService.get(accountNumber) / BankAccount._create of the second variant
Bank2(f, accountNumber) ==
  /\ CanStart(f)
  /\ ~Targets("acct") /\ ~Targets("bearer")
  /\ IF CreateLoads(client.LAZY) THEN
       /\ AwaitedPrecheck(f, [IdleFlow EXCEPT !.op = "bank2",
                                 !.target = "acct", !.arg = accountNumber])
       /\ acct' = IF flows'[f].pc = "idle" THEN NoAccount
                  ELSE NewBankAccount2(accountNumber)
     ELSE
       /\ Settle([flows EXCEPT ![f] =
            Done([IdleFlow EXCEPT !.op = "bank2", !.target = "acct",
                                  !.arg = accountNumber], "ok")])
       /\ acct' = [NewBankAccount2(accountNumber) EXCEPT !.held = TRUE]
       /\ UNCHANGED <<client, snap>>
  /\ CountedIf(CreateLoads(client.LAZY))
  /\ UNCHANGED <<ready, now, ticks, plr, unhandled>>

\* BankAccount.load() of the second variant on the caller's account
BankLoad2(f) ==
  /\ CanStart(f)
  /\ acct.held /\ acct.variant = 2
  /\ AwaitedPrecheck(f, [IdleFlow EXCEPT !.op = "load2", !.target = "acct"])
  /\ CountedIf(TRUE)
  /\ UNCHANGED <<ready, now, ticks, acct, plr, unhandled>>

\* BankAccount._load of the second variant after its bank/info fetch:
\* validation and the three assignments; the bearer is the string of the
\* answer for every account type
BankInfoResponse2(f, okResp, data) ==
  /\ flows[f].pc = "fetchWait" /\ flows[f].op \in {"bank2", "load2"}
  /\ LET err == IF ~okResp THEN "ApiError"
                ELSE IF ~BankAccountSchemaValid(data) THEN "ZodError"
                ELSE "ok"
     IN /\ Settle([flows EXCEPT ![f] = Done(@, err)])
        /\ acct' = IF err = "ok"
                     THEN [acct EXCEPT !.balance = <<data.balance>>,
                                       !.accountType = data.accountType,
                                       !.bearer = StringBearer(data.bearer),
                                       !.held = TRUE]
                   ELSE IF flows[f].op = "bank2" THEN NoAccount
                   ELSE acct
  /\ UNCHANGED <<client, ready, now, ticks, plr, snap, unhandled, ops>>

\* -------------------------------------------------------- BankService
\* variant: only an array answer has values
ObjectValuesOfArrays(data) ==
  IF data.shape = "array" THEN data.entries ELSE <<>>

\* Object.values(data ?? {}) of the first variant of listAll: the elements of
\* an array, the values of an object
ObjectValues(data) ==
  IF data.shape = "none" THEN <<>>
  ELSE IF data.shape \in {"array", "map"} THEN data.entries
  ELSE <<ArrayItem>>

\* BankService.extractItemsFromResponse of the second variant
extractItemsFromResponse(data) ==
  IF data.shape = "none" THEN <<>>
  ELSE IF data.shape = "array" THEN data.entries
  ELSE IF data.shape = "keyed" THEN
    IF data.key \in {"accounts", "list", "results", "data"}
      THEN data.entries
      ELSE data.entries      \* the first property that is an array
  ELSE IF /\ Len(data.entries) > 0
          /\ \A i \in 1..Len(data.entries) : data.entries[i].kind = "object"
    THEN data.entries
  ELSE <<>>

\* BankAccountSchema.parseAsync(item) succeeds
ItemValid(item) ==
  item.kind = "object" /\ BankAccountSchemaValid(item.account)

\* BankService.listAll up to its bank/list fetch
ListAll(f) ==
  /\ CanStart(f)
  /\ AwaitedPrecheck(f, [IdleFlow EXCEPT !.op = "listAll", !.target = "list"])
  /\ CountedIf(TRUE)
  /\ UNCHANGED <<ready, now, ticks, acct, plr, unhandled>>

\* the bank/list fetch returns; items = Object.values(data ?? {})
ListResponse(f, okResp, data) ==
  /\ flows[f].pc = "fetchWait" /\ flows[f].op = "listAll"
  /\ Settle([flows EXCEPT ![f] =
       IF ~okResp THEN Done(@, "ApiError")
       ELSE [@ EXCEPT !.pc = "listLoop", !.data = data,
                      !.items = ObjectValues(data), !.list = <<>>]])
  /\ UNCHANGED <<client, ready, now, ticks, acct, plr, snap, unhandled, ops>>

\* one round of the loop of listAll: BankAccountSchema.parseAsync(item) and
\* BankAccount._fromSchema up to the first suspension of Player._create
ListStep(f) ==
  /\ flows[f].pc = "listLoop" /\ flows[f].op = "listAll"
  /\ LET fl == flows[f]
     IN IF fl.items = <<>> THEN
          /\ Settle([flows EXCEPT ![f] = Done(@, "ok")])
          /\ UNCHANGED <<client, snap, unhandled>>
        ELSE LET item == Head(fl.items).account
                 p == [playerName |-> item.bearer, uuid |-> Undefined]
             IN IF ~ItemValid(Head(fl.items)) THEN
                  /\ Settle([flows EXCEPT ![f] =
                       [Done(@, "ZodError") EXCEPT !.list = <<>>]])
                  /\ UNCHANGED <<client, snap, unhandled>>
                ELSE IF item.accountType # Privatkonto THEN
                  /\ Settle([flows EXCEPT ![f] =
                       [@ EXCEPT !.items = Tail(@),
                          !.list = Append(@, ListEntry(item,
                                       StringBearer(item.bearer)))]])
                  /\ UNCHANGED <<client, snap, unhandled>>
                ELSE IF CreateLoads(NestedContextLazy(client.LAZY)) THEN
                  /\ PlayerLoadEffects(f, fl, p)
                ELSE
                  /\ Settle([flows EXCEPT ![f] =
                       [@ EXCEPT !.items = Tail(@),
                          !.list = Append(@, ListEntry(item,
                                       PlayerBearer(p)))]])
                  /\ UNCHANGED <<client, snap, unhandled>>
  /\ UNCHANGED <<ready, now, ticks, acct, plr, ops>>

\* ------------------------------- BankService, second variant of bank.ts
\* new BankAccount(accountNumber, ctx, balance, accountType, bearer) of the
\* second variant, called by its _fromSchema: a field is assigned only if
\* its argument is truthy, and the bearer is the string of the answer
ListEntryBare(schema) ==
  [accountNumber |-> schema.accountNumber,
   balance |-> IF schema.balance = 0 THEN <<>> ELSE <<schema.balance>>,
   accountType |-> schema.accountType,
   bearer |-> IF Falsy(schema.bearer) THEN NoBearer
              ELSE StringBearer(schema.bearer)]

\* listAll of the second variant up to its bank/list fetch
ListAll2(f) ==
  /\ CanStart(f)
  /\ AwaitedPrecheck(f, [IdleFlow EXCEPT !.op = "listAll2", !.target = "list"])
  /\ CountedIf(TRUE)
  /\ UNCHANGED <<ready, now, ticks, acct, plr, unhandled>>

\* the bank/list fetch returns; items = extractItemsFromResponse(data)
ListResponse2(f, okResp, data) ==
  /\ flows[f].pc = "fetchWait" /\ flows[f].op = "listAll2"
  /\ Settle([flows EXCEPT ![f] =
       IF ~okResp THEN Done(@, "ApiError")
       ELSE [@ EXCEPT !.pc = "listLoop", !.data = data,
                      !.items = extractItemsFromResponse(data),
                      !.list = <<>>]])
  /\ UNCHANGED <<client, ready, now, ticks, acct, plr, snap, unhandled, ops>>

\* one round of the loop of the second variant
ListStep2(f) ==
  /\ flows[f].pc = "listLoop" /\ flows[f].op = "listAll2"
  /\ Settle([flows EXCEPT ![f] =
       IF @.items = <<>> THEN Done(@, "ok")
       ELSE IF ~ItemValid(Head(@.items))
         THEN [Done(@, "ZodError") EXCEPT !.list = <<>>]
       ELSE [@ EXCEPT !.items = Tail(@),
               !.list = Append(@, ListEntryBare(Head(flows[f].items).account))]])
  /\ UNCHANGED <<client, ready, now, ticks, acct, plr, snap, unhandled, ops>>

\* the clock and GMClient.create
NextCommon ==
  \/ \E d \in {MAX_CACHE_LIFETIME, MAX_CACHE_LIFETIME + 1} : Tick(d)
  \/ CreateStart(1)
  \/ \E f \in Fg, okResp \in BOOLEAN, data \in ApiInfoPayloads :
       CreateResponse(f, okResp, data)

\* an awaited refreshCache returns
NextRefresh ==
  \/ \E f \in Fg, okResp \in BOOLEAN, data \in ApiInfoPayloads :
       RefreshResponse(f, okResp, data)
  \/ \E f \in Fg : PrecheckResume(f)

\* the quota operations of GMClient
NextClient ==
  \/ \E f \in Fg : IsLimitReached(f)
  \/ \E f \in Fg : GetRemainingRequests(f)
  \/ \E b \in Bg, okResp \in BOOLEAN, data \in ApiInfoPayloads :
       DetachedRefreshResponse(b, okResp, data)
  \/ \E f \in Fg, ignoreCache \in BOOLEAN : GetApiInfo(f, ignoreCache)
  \/ \E f \in Fg, okResp \in BOOLEAN, data \in ApiInfoPayloads :
       GetApiInfoResponse(f, okResp, data)

\* the lookups of Player, wherever the Player was created
NextLookup ==
  \/ \E b \in Bg, okResp \in BOOLEAN, data \in ApiInfoPayloads :
       DetachedPrecheckResponse(b, okResp, data)
  \/ \E b \in Bg : DetachedPrecheckResume(b)
  \/ \E f \in Fg, okResp \in BOOLEAN, data \in UuidPayloads :
       UuidResponse(f, okResp, data)

\* PlayerService and Player.load
NextPlayer ==
  \/ \E f \in Fg, playerName \in PlayerNames : FromPlayername(f, playerName)
  \/ \E f \in Fg, uuid \in Uuids : FromUuid(f, uuid)
  \/ \E f \in Fg : PlayerLoad(f, "plr")
  \/ \E f \in Fg, okResp \in BOOLEAN, data \in PlayernamePayloads :
       PlayernameResponse(f, okResp, data)

\* client.bank(accountNumber), BankService.get and BankAccount.load
NextBank ==
  \/ \E f \in Fg, accountNumber \in AccountNumbers : Bank(f, accountNumber)
  \/ \E f \in Fg : BankLoad(f)
  \/ \E f \in Fg, okResp \in BOOLEAN, data \in AccountPayloads :
       BankInfoResponse(f, okResp, data)
  \/ \E f \in Fg : BearerResume(f)
  \/ \E f \in Fg : PlayerLoad(f, "bearer")

\* BankService.get and BankAccount.load, second variant
NextBank2 ==
  \/ \E f \in Fg, accountNumber \in AccountNumbers : Bank2(f, accountNumber)
  \/ \E f \in Fg : BankLoad2(f)
  \/ \E f \in Fg, okResp \in BOOLEAN, data \in AccountPayloads :
       BankInfoResponse2(f, okResp, data)

\* BankService.listAll
NextList ==
  \/ \E f \in Fg : ListAll(f)
  \/ \E f \in Fg, okResp \in BOOLEAN, data \in ListPayloads :
       ListResponse(f, okResp, data)
  \/ \E f \in Fg : ListStep(f)

\* BankService.listAll, second variant
NextList2 ==
  \/ \E f \in Fg : ListAll2(f)
  \/ \E f \in Fg, okResp \in BOOLEAN, data \in ListPayloads :
       ListResponse2(f, okResp, data)
  \/ \E f \in Fg : ListStep2(f)

Next ==
  \/ NextCommon
  \/ NextRefresh
  \/ NextClient
  \/ NextLookup
  \/ NextPlayer
  \/ NextBank
  \/ NextBank2
  \/ NextList
  \/ NextList2

Spec == Init /\ [][Next]_vars

\* a resource load: client.bank(accountNumber) up to the bearer
NextResource ==
  \/ \E f \in Fg : Bank(f, "ACC1")
  \/ \E f \in Fg, okResp \in BOOLEAN, data \in AccountPayloads :
       BankInfoResponse(f, okResp, data)

\* the quota cache under the operations of GMClient and resource loads
NextQuota ==
  NextCommon \/ NextRefresh \/ NextClient \/ NextResource \/ NextLookup
SpecQuota == Init /\ [][NextQuota]_vars

\* bank accounts and their bearers
NextAccounts == NextCommon \/ NextRefresh \/ NextLookup \/ NextBank
SpecAccounts == Init /\ [][NextAccounts]_vars

\* the account list: the caller's first operation is a listAll of either
\* variant
NextListOne ==
  \/ ops = 0 /\ ListAll(1)
  \/ ops = 0 /\ ListAll2(1)
  \/ \E okResp \in BOOLEAN, data \in ListPayloads :
       \/ ListResponse(1, okResp, data)
       \/ ListResponse2(1, okResp, data)
  \/ ListStep(1)
  \/ ListStep2(1)
NextListing == NextCommon \/ NextRefresh \/ NextLookup \/ NextListOne
SpecListing == Init /\ [][NextListing]_vars

\* accounts and list entries with their bearers: one operation at a time,
\* a listAll only as the first operation that counts a request
NextLoadOne ==
  \/ Bank(1, "ACC1")
  \/ BankLoad(1)
  \/ \E okResp \in BOOLEAN, data \in AccountPayloads :
       BankInfoResponse(1, okResp, data)
  \/ BearerResume(1)
  \/ Bank2(1, "ACC1")
  \/ BankLoad2(1)
  \/ \E okResp \in BOOLEAN, data \in AccountPayloads :
       BankInfoResponse2(1, okResp, data)
NextNested ==
  NextCommon \/ NextRefresh \/ NextLookup \/ NextLoadOne \/ NextListOne
SpecNested == Init /\ [][NextNested]_vars

\* operations that refresh the cache at the same time
NextRace ==
  \/ NextCommon
  \/ NextRefresh
  \/ Latency(1)
  \/ \E f \in Fg : GetApiInfo(f, FALSE)
  \/ \E f \in Fg, okResp \in BOOLEAN, data \in ApiInfoPayloads :
       GetApiInfoResponse(f, okResp, data)
SpecRace == Init /\ [][NextRace]_vars

\* players
NextPlayers == NextCommon \/ NextLookup \/ NextPlayer
SpecPlayers == Init /\ [][NextPlayers]_vars

\* ------------------------------------------------------------- claims
LoadOps ==
  {"bank", "load", "bank2", "load2", "listAll", "listAll2", "Player.load",
   "fromPlayername", "fromUuid"}

\* C1: while the cache is fresh and shows the limit reached, a resource load
\* that is started fails with LimitReachedError without a network call: no
\* load goes on to a pending fetch, and the one that ends in the step it was
\* started in ends with LimitReachedError and no call.
C1_LimitReachedBlocksLoads ==
  [][(ready /\ isLimitReached(client) /\ ~isCacheOutdated(client, now)) =>
       /\ \A f \in Fg : flows[f].pc = "idle" =>
            (flows'[f].pc = "idle" \/ flows'[f].op \notin LoadOps)
       /\ (ops' = ops + 1 /\ last'.op \in LoadOps) =>
            (last'.result = "LimitReachedError" /\ last'.calls = 0)]_vars

\* C2 as stated: the cached used and limit are the requests and limit of the
\* last quota-info response that was stored; nothing else changes them.
C2_CacheEqualsSnapshot ==
  ready => /\ client.REQ_LIMIT = snap.limit
           /\ client.requestCount = snap.requests

\* C2 amended: the cached limit is the limit of the last stored quota-info
\* response, and the cached used value is its requests plus the number of
\* handleOperation calls made since it was stored.
C2_CacheCountsOperations ==
  ready => /\ client.REQ_LIMIT = snap.limit
           /\ client.requestCount = snap.requests + snap.since

\* operations were counted on top of a stored response, and the last one
\* to finish was rejected or failed
C2_Witness ==
  /\ ready /\ snap.since >= 2
  /\ client.requestCount = snap.requests + snap.since
  /\ last.result \in {"LimitReachedError", "ApiError"}

\* C3: the value getRemainingRequests returns is computed from a cache that
\* is not older than the TTL when it is returned.
C3_RemainingFromFreshCache ==
  last.op = "getRemainingRequests" => ~last.stale

\* C4 as stated: isLimitReached() is true exactly when the requests of the
\* last stored quota-info response are >= its limit.
C4_LimitReachedIffSnapshot ==
  ready => (isLimitReached(client) <=> snap.requests >= snap.limit)

\* C4 amended: isLimitReached() is true exactly when the requests of the
\* last stored quota-info response plus the handleOperation calls made since
\* are >= its limit, and a call of it issues no network call and changes
\* nothing of the client.
C4_LimitReachedIffCounted ==
  [][/\ ready' => (isLimitReached(client') <=>
                     snap'.requests + snap'.since >= snap'.limit)
     /\ (flows' = flows /\ ticks' = ticks /\ last'.op = "isLimitReached") =>
          /\ last'.flag = isLimitReached(client)
          /\ last'.calls = 0 /\ last'.result = "ok"
          /\ UNCHANGED <<client, ready, now, acct, plr, snap, unhandled,
                         ops>>]_vars

\* isLimitReached() returned true although the stored response is below the
\* limit: the calls counted since made the difference
C4_Witness ==
  /\ last.op = "isLimitReached" /\ last.flag
  /\ isLimitReached(client)
  /\ snap.requests < snap.limit

\* C5 as stated: getApiInfo(false) with a cache younger than the TTL returns
\* without a network call.
C5_FreshCacheNoFetch ==
  (last.op = "getApiInfo" /\ ~last.ignoreCache /\ ~last.stale
     /\ last.result = "ok") => last.calls = 0

\* C5 amended: a getApiInfo that returns has issued its own api/info fetch,
\* preceded by the fetch of a refresh when ignoreCache is false and the cache
\* is stale; ignoreCache = true skips the refresh and the limit check; the
\* limit check rejects before the call's own fetch.
C5_AlwaysFetches ==
  last.op = "getApiInfo" =>
    /\ last.result = "ok" => last.calls = (IF last.stale THEN 2 ELSE 1)
    /\ last.ignoreCache => (~last.stale /\ last.result # "LimitReachedError")
    /\ last.result = "LimitReachedError" =>
         last.calls = (IF last.stale THEN 1 ELSE 0)

\* getApiInfo(false) on a fresh cache has returned after one fetch
C5_Witness ==
  /\ last.op = "getApiInfo" /\ ~last.ignoreCache /\ ~last.stale
  /\ last.result = "ok" /\ last.calls = 1

\* C6: without lazy mode, create issues one api/info fetch, and a load that
\* succeeds on a fresh cache issues one bank/info fetch plus one util/uuid
\* fetch when the account is private.
C6_FetchCounts ==
  ~client.LAZY =>
    /\ (last.op = "create" /\ last.result = "ok") => last.calls = 1
    /\ (last.op \in {"bank", "load"} /\ last.result = "ok" /\ ~last.stale) =>
         last.calls = (IF last.private THEN 2 ELSE 1)

\* a private account was loaded by client.bank() with two fetches
C6_Witness ==
  /\ ~client.LAZY /\ last.op = "bank" /\ last.result = "ok"
  /\ ~last.stale /\ last.private /\ last.calls = 2
  /\ acct.held /\ acct.bearer.kind = "player"

\* C7: with lazy mode, bank(accountNumber) returns at once an account with
\* the given number and balance, accountType and bearer unset, without a
\* network call and without touching the quota cache; the balance becomes
\* set only by a load().
C7_LazyBankUnloaded ==
  [][/\ (client.LAZY /\ flows' = flows /\ ticks' = ticks
           /\ last'.op = "bank") =>
          /\ last'.result = "ok" /\ last'.calls = 0
          /\ acct' = [exists |-> TRUE, held |-> TRUE, variant |-> 1,
                      accountNumber |-> last'.arg, balance |-> <<>>,
                      accountType |-> Undefined, bearer |-> NoBearer]
          /\ UNCHANGED <<client, ready, now, plr, snap, unhandled, ops>>
     /\ client.LAZY => \A f \in Fg : flows'[f].op # "bank"
     /\ (client.LAZY /\ acct.balance = <<>> /\ acct'.balance # <<>>) =>
          \E f \in Fg : flows[f].op = "load" /\ flows[f].pc = "fetchWait"]_vars

\* a lazy client handed out an unloaded account
C7_Witness ==
  /\ client.LAZY /\ last.op = "bank" /\ last.result = "ok"
  /\ acct.held /\ acct.accountNumber = last.arg
  /\ acct.balance = <<>> /\ acct.accountType = Undefined
  /\ acct.bearer = NoBearer

\* C8: whenever the caller's account is of the private type and no load of
\* it is in flight, its bearer is a Player.
C8_PrivateBearerIsPlayer ==
  (acct.held /\ ~Targets("acct") /\ acct.accountType = Privatkonto) =>
    acct.bearer.kind = "player"

\* C9: a load() whose payload fails validation ends with the validation
\* error and leaves the account as it was; no account type outside the
\* schema ever gets into an account.
C9_InvalidPayloadLeavesAccount ==
  [][/\ \A f \in Fg :
          (flows[f].op = "load" /\ flows[f].pc = "fetchWait"
             /\ flows'[f].pc = "idle" /\ last'.result = "ZodError") =>
            acct' = acct
     /\ acct'.accountType \in accountTypes \cup {Undefined}]_vars

\* a load() of an unloaded account failed validation and the account is
\* still unloaded
C9_Witness ==
  /\ last.op = "load" /\ last.result = "ZodError" /\ last.calls = 1
  /\ acct.held /\ ~Targets("acct")
  /\ acct.balance = <<>> /\ acct.accountType = Undefined
  /\ acct.bearer = NoBearer

\* C10: no failure raised inside an operation is left as the rejection of a
\* promise nobody awaits.
C10_NoUnobservedFailure == unhandled = "none"

\* C11: PlayerService.fromPlayername / fromUuid return a loaded Player, the
\* key that was passed kept and the other one taken from the answer of the
\* lookup endpoint after one fetch, whether the client is lazy or not.
C11_ServicePlayersLoaded ==
  /\ (last.op = "fromPlayername" /\ last.result = "ok") =>
       /\ plr.playerName = last.arg /\ ~Falsy(plr.playerName)
       /\ plr.uuid \in {StringOf(d.uuid) : d \in UuidPayloads}
       /\ ~Falsy(plr.uuid)
       /\ last.calls = 1
  /\ (last.op = "fromUuid" /\ last.result = "ok") =>
       /\ plr.uuid = last.arg /\ ~Falsy(plr.uuid)
       /\ plr.playerName \in {StringOf(d.playername) : d \in PlayernamePayloads}
       /\ ~Falsy(plr.playerName)
       /\ last.calls = 1

\* a lazy client's fromPlayername("Steve") returned a Player with the uuid
\* of the util/uuid answer
C11_Witness ==
  /\ client.LAZY /\ last.op = "fromPlayername" /\ last.result = "ok"
  /\ plr = [playerName |-> "Steve", uuid |-> "u-1"]
  /\ last.calls = 1

ListOps == {"listAll", "listAll2"}
\* the answer of a running listAll carries its entries as an array or as an
\* object keyed by account number; for the second variant every entry is
\* an object
PlainShape(fl) ==
  /\ fl.op \in ListOps /\ fl.pc \in {"listLoop", "lookupWait"}
  /\ fl.data.shape \in {"array", "map"}
  /\ fl.op = "listAll2" =>
       \A i \in 1..Len(fl.data.entries) : fl.data.entries[i].kind = "object"

\* C12: the list listAll builds is the same for an answer that carries the
\* entries as an array and for one that carries them as an object keyed by
\* account number: in both shapes the loop runs over the entries in their
\* order, the list built so far has one account per entry passed, with the
\* account number, balance, type and bearer name of that entry, and the
\* list that is returned has one account per entry.
C12_ShapeIndependentList ==
  [][\A f \in Fg : PlainShape(flows[f]) =>
       LET fl == flows[f]
           entries == fl.data.entries
           n == Len(fl.list)
       IN /\ n + Len(fl.items) = Len(entries)
          /\ fl.items = SubSeq(entries, n + 1, Len(entries))
          /\ \A i \in 1..n :
               LET a == entries[i].account
               IN /\ fl.list[i].accountNumber = a.accountNumber
                  /\ fl.list[i].accountType = a.accountType
                  /\ fl.list[i].bearer.playerName = a.bearer
                  /\ fl.list[i].balance =
                       (IF fl.op = "listAll2" /\ a.balance = 0
                          THEN <<>> ELSE <<a.balance>>)
          /\ (flows'[f].pc = "idle" /\ last'.result = "ok") =>
               /\ last'.list = fl.list
               /\ Len(last'.list) = Len(entries)
          /\ (flows'[f].pc = "idle" /\ fl.pc = "listLoop") =>
               (last'.result = "ok" <=>
                  \A i \in 1..Len(entries) : ItemValid(entries[i]))]_vars

\* a listAll whose answer is an object keyed by account number is about to
\* return two accounts
C12_Witness ==
  \E f \in Fg :
    /\ flows[f].op \in ListOps /\ flows[f].pc = "listLoop"
    /\ flows[f].data.shape = "map"
    /\ flows[f].items = <<>>
    /\ Len(flows[f].list) = 2 /\ Len(flows[f].data.entries) = 2

\* C13: a listAll whose answer holds an entry that does not match the
\* account schema ends with the validation error and returns no list,
\* whatever the shape of the answer.
C13_MalformedEntryFails ==
  [][\A f \in Fg :
       (/\ flows[f].op \in ListOps /\ flows[f].pc = "listLoop"
        /\ \E i \in 1..Len(flows[f].data.entries) :
             ~ItemValid(flows[f].data.entries[i])
        /\ flows'[f].pc = "idle") =>
         (last'.result = "ZodError" /\ last'.list = <<>>)]_vars

\* C14 as stated: an operation whose precheck finds the cache older than
\* the TTL is not rejected before its refresh, and when its handleOperation
\* resumes after the refresh and the refreshed snapshot shows requests <
\* limit, the operation goes on to its own fetch.
C14_RefreshLiftsLockout ==
  [][/\ (ready /\ isCacheOutdated(client, now) /\ ops' = ops + 1
          /\ flows' = flows) => last'.result # "LimitReachedError"
     /\ \A f \in Fg :
          (flows[f].pc = "refreshed" /\ flows'[f] # flows[f]
             /\ snap.requests < snap.limit) =>
            flows'[f].pc = "fetchWait"]_vars

\* C14 amended: an operation whose precheck finds the cache older than the
\* TTL is not rejected before its refresh, also when the cache shows the
\* limit reached; the refresh stores its answer without a limit check; when
\* handleOperation resumes, the operation goes on to its own fetch exactly
\* if the requests of the snapshot stored last plus the handleOperation
\* calls made since that store are below its limit, and is rejected with
\* LimitReachedError otherwise.
C14_RefreshThenCountedCheck ==
  [][/\ (ready /\ isCacheOutdated(client, now) /\ ops' = ops + 1
          /\ flows' = flows) => last'.result # "LimitReachedError"
     /\ \A f \in Fg :
          (flows[f].pc = "refreshWait" /\ flows'[f] # flows[f]) =>
            \/ /\ flows'[f].pc = "refreshed"
               /\ snap'.since = 0
               /\ client'.requestCount = snap'.requests
               /\ client'.REQ_LIMIT = snap'.limit
            \/ /\ flows'[f].pc = "idle"
               /\ last'.result \in {"ApiError", "ZodError"}
               /\ UNCHANGED <<client, snap>>
     /\ \A f \in Fg :
          (flows[f].pc = "refreshed" /\ flows'[f] # flows[f]) =>
            /\ UNCHANGED <<client, snap>>
            /\ IF snap.requests + snap.since < snap.limit
                 THEN /\ flows'[f].pc = "fetchWait"
                      /\ flows'[f].calls = flows[f].calls + 1
                 ELSE /\ flows'[f].pc = "idle"
                      /\ last'.result = "LimitReachedError"]_vars

\* an operation that found the cache stale and at the limit has refreshed
\* it and waits for its own fetch
C14_Witness ==
  \E f \in Fg :
    /\ flows[f].locked /\ flows[f].stale
    /\ flows[f].pc = "fetchWait" /\ flows[f].calls = 2
    /\ ~isLimitReached(client)

\* C15: a quota-info answer with a non-negative integer limit, a
\* non-negative integer requests (0 included) and a non-negative
\* outstandingCosts validates, and its values are the snapshot: a create
\* whose api/info fetch returned such an answer succeeds and returns the
\* client.
C15_NonNegativeSnapshotValidates ==
  (last.op = "create" /\ last.info # <<>>) =>
    LET d == last.info[1]
    IN (d.limit >= 0 /\ d.requests >= 0 /\ d.outstandingCosts >= 0) =>
         /\ last.result = "ok"
         /\ ready

\* neither key of the Player is set, as Player._load tests it
NoKey(p) == Falsy(p.playerName) /\ Falsy(p.uuid)

\* C16: no Player the caller holds has neither a player name nor a UUID:
\* not the Player a service returned, not the bearer of the caller's
\* account, not the bearer of an account of a returned list.
C16_NoKeylessPlayer ==
  /\ plr # NoPlayer => ~NoKey(plr)
  /\ (acct.held /\ acct.bearer.kind = "player") => ~NoKey(acct.bearer)
  /\ (last.op \in ListOps /\ last.result = "ok") =>
       \A i \in 1..Len(last.list) :
         last.list[i].bearer.kind = "player" => ~NoKey(last.list[i].bearer)

\* C17: the bearer of a private account is created under the lazy flag of
\* the client.  A load of a private account that succeeds leaves, with a lazy
\* client, a Player as bearer that has the bearer name of the answer and no
\* uuid, and has issued no lookup fetch; without lazy mode it leaves a Player
\* with both keys set after one lookup fetch.  The same holds for the private
\* accounts of a list that listAll (first variant) returns.
C17_NestedBearerFollowsLazy ==
  [][/\ \A f \in Fg :
          (/\ flows[f].op \in {"bank", "load"} /\ flows[f].private
           /\ flows[f].pc # "idle" /\ flows'[f].pc = "idle"
           /\ last'.result = "ok") =>
            /\ acct'.accountType = Privatkonto
            /\ acct'.bearer.kind = "player"
            /\ acct'.bearer.playerName = flows[f].player.playerName
            /\ IF client.LAZY
                 THEN /\ acct'.bearer.uuid = Undefined
                      /\ flows[f].pc = "bearerWait"
                      /\ last'.calls = (IF last'.stale THEN 2 ELSE 1)
                 ELSE /\ ~Falsy(acct'.bearer.uuid)
                      /\ ~Falsy(acct'.bearer.playerName)
                      /\ flows[f].pc = "lookupWait"
                      /\ last'.calls >= 2
     /\ (last'.op = "listAll" /\ last'.result = "ok") =>
          /\ \A i \in 1..Len(last'.list) :
               last'.list[i].accountType = Privatkonto =>
                 /\ last'.list[i].bearer.kind = "player"
                 /\ ~Falsy(last'.list[i].bearer.playerName)
                 /\ client.LAZY <=> last'.list[i].bearer.uuid = Undefined
                 /\ ~client.LAZY => ~Falsy(last'.list[i].bearer.uuid)
          /\ client.LAZY => last'.calls = (IF last'.stale THEN 2 ELSE 1)]_vars

\* with a lazy client, load() of a private account has returned after one
\* fetch and the bearer is an unloaded Player
C17_Witness ==
  /\ client.LAZY /\ last.op = "load" /\ last.result = "ok"
  /\ last.private /\ last.calls = 1
  /\ acct.held /\ acct.accountType = Privatkonto
  /\ acct.bearer = [kind |-> "player", playerName |-> "Steve",
                    uuid |-> Undefined]

\* C18: an operation is rejected by its precheck only if the cache the
\* precheck consults shows the limit reached: an operation that is started
\* on a fresh cache and is rejected with LimitReachedError before any fetch
\* found the cached requests >= the cached limit.
C18_RejectedOnlyAtLimit ==
  [][(/\ ready /\ ~isCacheOutdated(client, now)
      /\ ops' = ops + 1 /\ flows' = flows
      /\ last'.result = "LimitReachedError" /\ last'.calls = 0) =>
       isLimitReached(client)]_vars

\* C19 as stated: operations that find the cache stale at the same time
\* refresh it each on its own and neither fails because of the other: when
\* the handleOperation of one of them resumes after its refresh, the
\* operation goes on to its fetch exactly if the answer of its own refresh
\* shows requests < limit.
C19_ConcurrentRefreshes ==
  [][\A f \in Fg :
       (flows[f].pc = "refreshed" /\ flows'[f] # flows[f]) =>
         (flows'[f].pc = "fetchWait" <=>
            flows[f].info[1].requests < flows[f].info[1].limit)]_vars

\* C19 amended: operations that find the cache stale at the same time
\* refresh it each on its own.  When the refresh of one of them returns, the
\* cache holds the limit and requests of the answer just fetched and the
\* time of this return, whatever the other has stored before, and the other
\* operation is left as it is; a refresh that fails leaves the cache and the
\* other operation alone.  So after both the cache is the answer of the later
\* one and #lastUpdated is the time the later one returned.  The limit check
\* of each operation is made when its handleOperation resumes, on the cache
\* as it is then, which can hold the answer of the other refresh: the
\* operation goes on exactly if the cached count is below the cached limit.
C19_LaterRefreshWins ==
  [][\A f \in Fg :
       /\ (flows[f].pc = "refreshWait" /\ flows'[f] # flows[f]) =>
            /\ \A g \in Slots \ {f} : flows'[g] = flows[g]
            /\ IF flows'[f].pc = "idle"
                 THEN /\ last'.result \in {"ApiError", "ZodError"}
                      /\ UNCHANGED <<client, snap>>
                 ELSE /\ flows'[f].pc = "refreshed"
                      /\ client'.REQ_LIMIT = flows'[f].info[1].limit
                      /\ client'.requestCount = flows'[f].info[1].requests
                      /\ client'.lastUpdated = now
                      /\ snap'.since = 0
                      /\ snap'.limit = client'.REQ_LIMIT
                      /\ snap'.requests = client'.requestCount
       /\ (flows[f].pc = "refreshed" /\ flows'[f] # flows[f]) =>
            /\ \A g \in Slots \ {f} : flows'[g] = flows[g]
            /\ UNCHANGED <<client, snap>>
            /\ flows'[f].pc = "fetchWait" <=>
                 client.requestCount < client.REQ_LIMIT
            /\ flows'[f].pc # "fetchWait" =>
                 (flows'[f].pc = "idle"
                    /\ last'.result = "LimitReachedError")]_vars

\* two operations found the cache stale, both refreshes have returned with
\* different answers, the later one after the clock had advanced, and
\* neither handleOperation has resumed yet: the cache holds the later answer,
\* which shows the limit reached, while the other answer shows quota
C19_Witness ==
  /\ \A f \in Fg : flows[f].stale /\ flows[f].pc = "refreshed"
  /\ \E f, g \in Fg :
       /\ flows[f].info[1].requests < flows[f].info[1].limit
       /\ client.REQ_LIMIT = flows[g].info[1].limit
       /\ client.requestCount = flows[g].info[1].requests
       /\ flows[g].info[1].requests >= flows[g].info[1].limit
  /\ ticks = MaxTicks + 1
  /\ client.lastUpdated = now
  /\ isLimitReached(client)

\* C20: Player.load() fails with GmClientError only if neither key of the
\* Player is set, and then without a network call; load() on a Player that
\* has both keys does not fail.
C20_LoadFailsOnlyWithoutKeys ==
  (last.op = "Player.load" /\ last.target = "plr"
     /\ last.result = "GmClientError") =>
    (NoKey(plr) /\ last.calls = 0)
====
